---- MODULE Spec2Model ----
(***************************************************************************)
(* photoscrub (src/photoscrub/main.py): the selection of unidentified      *)
(* persons (load_person_infos), the people window and its preview tiles    *)
(* (PeopleWindow, PersonPreviewTile) and the face marker drawn on a photo  *)
(* (pdb_photo_to_image).                                                   *)
(*                                                                         *)
(* Floats of the photo library (normalised centre and size of a face, all  *)
(* in [0, 1]) are the rationals k / Den, k in 0..Den.  None is Nil.        *)
(***************************************************************************)
EXTENDS Integers, Sequences, FiniteSets

\* ------------------------------------------------------------- bounds
MaxMixed == 2        \* persons of arbitrary kind in a library
MaxPad == 9          \* ordinary unidentified persons around them
MaxFaceCount == 2    \* largest facecount of a person
MaxPk == 3           \* face keys of a one-person library
MaxFaces == 3        \* faces of the person of a one-person library
MaxDim == 5          \* largest pixel width and height of a photo
Den == 4             \* denominator of the normalised coordinates

\* ---------------------------------------------------------- constants
Nil == 0             \* None: a missing key face or key photo (falsy)
TileLimit == 9       \* load_person_infos stops at 9 persons
GridSide == 3        \* PeopleWindow lays out range(3) x range(3) tiles
UNKNOWN == "_UNKNOWN_"
Qualities == {-1, 0, 1}

VARIABLES
    pdb,            \* pdb.person_info: the library's persons, in its order
    pc,             \* where main() is
    person_infos,   \* the list load_person_infos returned
    tiles,          \* the PersonPreviewTiles PeopleWindow has built
    idx,            \* r * 3 + c of PeopleWindow's loops
    error,          \* the exception that ended main(), or "none"
    photo,          \* pdb_photo_to_image's argument pi
    face,           \* pdb_photo_to_image's argument fi (<<>> is None)
    image,          \* what pdb_photo_to_image returned
    image2          \* the same call on a face of another quality

vars == <<pdb, pc, person_infos, tiles, idx, error, photo, face, image, image2>>

\* ------------------------------------------------------------ helpers
SeqsUpTo(S, n) == UNION {[1..k -> S] : k \in 0..n}

Min(a, b) == IF a <= b THEN a ELSE b

Max(a, b) == IF a >= b THEN a ELSE b

\* Python's int() of the float a / d (d > 0): truncation towards zero.
int(a, d) == IF a >= 0 THEN a \div d ELSE -((-a) \div d)

\* a / d (a >= 0, d > 0) rounded to the nearest integer, halves up.
round(a, d) == (2 * a + d) \div (2 * d)

\* The integers nearest to a / d (a >= 0, d > 0): two of them at a half.
Nearest(a, d) ==
    {n \in {a \div d, a \div d + 1} :
        (IF n * d >= a THEN n * d - a ELSE a - n * d) * 2 <= d}

\* ------------------------------------------------------- record model
\* osxphotos FaceInfo.center, read at line 76: the library's pixel-space
\* centre of the face, the normalised centre (in image orientation) scaled by
\* the source dimensions and converted with int().
FaceInfo_center(cx, cy, w, h) == <<int(cx * w, Den), int(cy * h, Den)>>

FaceInfo(pk, cx, cy, size, w, h, q) ==
    [_pk |-> pk, center_x |-> cx, center_y |-> cy,
     center |-> FaceInfo_center(cx, cy, w, h), size |-> size,
     source_width |-> w, source_height |-> h, quality |-> q]

\* The photo a key photo handle names: QImage(pi.path) has its pixel size
\* (0 x 0, a null image, when the file cannot be decoded).
PhotoInfo(w, h, decoded) ==
    [width |-> IF decoded THEN w ELSE 0, height |-> IF decoded THEN h ELSE 0]

\* The faces of the persons of a library: geometry fixed by the key.
LibFace(pk) == FaceInfo(pk, pk % (Den + 1), (pk + 1) % (Den + 1), pk % (Den + 1),
                        MaxDim, MaxDim - 1, IF pk = 1 THEN -1 ELSE 1)

LibPhoto(h) == PhotoInfo(MaxDim, MaxDim - 1, TRUE)

PersonInfo(fc, name, kf, kp, faces) ==
    [facecount |-> fc, name |-> name, keyface |-> kf, keyphoto |-> kp,
     face_info |-> faces]

\* Persons load_person_infos keeps (the key face 1 is in the face list, not
\* first), one whose key face is not in its face list, and persons it drops
\* for one reason each.
PersonKinds ==
    {PersonInfo(fc, UNKNOWN, 1, 1, <<LibFace(2), LibFace(1)>>) : fc \in 1..MaxFaceCount}
    \cup {PersonInfo(MaxFaceCount, UNKNOWN, 1, 1, <<LibFace(2)>>),
          PersonInfo(0, UNKNOWN, 1, 1, <<>>),
          PersonInfo(MaxFaceCount, "Mia", 1, 1, <<LibFace(2), LibFace(1)>>),
          PersonInfo(MaxFaceCount, UNKNOWN, Nil, 1, <<LibFace(2), LibFace(1)>>),
          PersonInfo(MaxFaceCount, UNKNOWN, 1, Nil, <<LibFace(2), LibFace(1)>>)}

Pads(n, fc) == [i \in 1..n |-> PersonInfo(fc, UNKNOWN, 1, 1, <<LibFace(2), LibFace(1)>>)]

\* The library's persons, each with its identity (its place in the library).
WithIds(s) == [i \in 1..Len(s) |->
    [id |-> i, facecount |-> s[i].facecount, name |-> s[i].name,
     keyface |-> s[i].keyface, keyphoto |-> s[i].keyphoto,
     face_info |-> s[i].face_info]]

Libraries ==
    {WithIds(SubSeq(m, 1, at) \o Pads(n, fc) \o SubSeq(m, at + 1, Len(m))) :
        <<m, n, at, fc>> \in
            {x \in SeqsUpTo(PersonKinds, MaxMixed) \X (0..MaxPad)
                   \X (0..MaxMixed) \X {1, MaxFaceCount} : x[3] <= Len(x[1])}}

\* -------------------------------------------------- load_person_infos
RECURSIVE insert_desc(_, _)
insert_desc(s, p) ==
    IF s = <<>> THEN <<p>>
    ELSE IF Head(s).facecount >= p.facecount
         THEN <<Head(s)>> \o insert_desc(Tail(s), p)
         ELSE <<p>> \o s

RECURSIVE insert_desc_unstable(_, _)
insert_desc_unstable(s, p) ==
    IF s = <<>> THEN <<p>>
    ELSE IF Head(s).facecount > p.facecount
         THEN <<Head(s)>> \o insert_desc_unstable(Tail(s), p)
         ELSE <<p>> \o s

RECURSIVE sorted_unstable(_)
sorted_unstable(s) ==
    IF s = <<>> THEN <<>>
    ELSE insert_desc_unstable(sorted_unstable(SubSeq(s, 1, Len(s) - 1)), s[Len(s)])

\* sorted(..., key=lambda pi: pi.facecount, reverse=True): descending, and
\* stable (persons of equal facecount keep their order).
RECURSIVE sorted(_)
sorted(s) ==
    IF s = <<>> THEN <<>>
    ELSE insert_desc(sorted(SubSeq(s, 1, Len(s) - 1)), s[Len(s)])

\* [pi for pi in pdb.person_info if pi.facecount > 0 and pi.name == "_UNKNOWN_"]
Unidentified(pi) == pi.facecount > 0 /\ pi.name = UNKNOWN

\* The loop over the sorted persons: skip those without key face or key
\* photo, append, stop once 9 are collected.
RECURSIVE collect_no_keyphoto_check(_, _)
collect_no_keyphoto_check(s, acc) ==
    IF s = <<>> THEN acc
    ELSE IF Head(s).keyface = Nil THEN collect_no_keyphoto_check(Tail(s), acc)
    ELSE LET acc2 == Append(acc, Head(s))
         IN  IF Len(acc2) >= TileLimit THEN acc2
             ELSE collect_no_keyphoto_check(Tail(s), acc2)

RECURSIVE collect_off_by_one(_, _)
collect_off_by_one(s, acc) ==
    IF s = <<>> THEN acc
    ELSE IF Head(s).keyface = Nil THEN collect_off_by_one(Tail(s), acc)
    ELSE IF Head(s).keyphoto = Nil THEN collect_off_by_one(Tail(s), acc)
    ELSE LET acc2 == Append(acc, Head(s))
         IN  IF Len(acc2) > TileLimit THEN acc2
             ELSE collect_off_by_one(Tail(s), acc2)

RECURSIVE collect(_, _)
collect(s, acc) ==
    IF s = <<>> THEN acc
    ELSE IF Head(s).keyface = Nil THEN collect(Tail(s), acc)
    ELSE IF Head(s).keyphoto = Nil THEN collect(Tail(s), acc)
    ELSE LET acc2 == Append(acc, Head(s))
         IN  IF Len(acc2) >= TileLimit THEN acc2
             ELSE collect(Tail(s), acc2)

load_person_infos_no_keyphoto_check(persons) ==
    collect_no_keyphoto_check(sorted(SelectSeq(persons, Unidentified)), <<>>)

load_person_infos_off_by_one(persons) ==
    collect_off_by_one(sorted(SelectSeq(persons, Unidentified)), <<>>)

load_person_infos(persons) == collect(sorted(SelectSeq(persons, Unidentified)), <<>>)

\* ------------------------------------------------- pdb_photo_to_image
\* The image returned: the decoded photo's size, the arguments of the
\* drawEllipse call (<<>> when no face is given) and the exception raised.
pdb_photo_to_image_clamped(pi, fi) ==
    [width |-> pi.width, height |-> pi.height, raised |-> "none",
     ellipse |->
        IF fi = <<>> THEN <<>>
        ELSE <<[center |-> <<Max(0, Min(fi[1].center[1], fi[1].source_width - 1)),
                             Max(0, Min(fi[1].center[2], fi[1].source_height - 1))>>,
                rx |-> int(fi[1].size * fi[1].source_width, Den),
                ry |-> int(fi[1].size * fi[1].source_width, Den)]>>]

pdb_photo_to_image_rounded(pi, fi) ==
    [width |-> pi.width, height |-> pi.height, raised |-> "none",
     ellipse |->
        IF fi = <<>> THEN <<>>
        ELSE <<[center |-> fi[1].center,
                rx |-> round(fi[1].size * fi[1].source_width, Den),
                ry |-> round(fi[1].size * fi[1].source_width, Den)]>>]

pdb_photo_to_image_validating(pi, fi) ==
    IF pi.width <= 0 \/ pi.height <= 0
    THEN [width |-> pi.width, height |-> pi.height,
          raised |-> "InvalidImageDimensions", ellipse |-> <<>>]
    ELSE [width |-> pi.width, height |-> pi.height, raised |-> "none",
          ellipse |->
             IF fi = <<>> THEN <<>>
             ELSE <<[center |-> fi[1].center,
                     rx |-> int(fi[1].size * fi[1].source_width, Den),
                     ry |-> int(fi[1].size * fi[1].source_width, Den)]>>]

pdb_photo_to_image_skip_low_quality(pi, fi) ==
    [width |-> pi.width, height |-> pi.height, raised |-> "none",
     ellipse |->
        IF fi = <<>> \/ fi[1].quality = -1 THEN <<>>
        ELSE <<[center |-> fi[1].center,
                rx |-> int(fi[1].size * fi[1].source_width, Den),
                ry |-> int(fi[1].size * fi[1].source_width, Den)]>>]

pdb_photo_to_image(pi, fi) ==
    [width |-> pi.width, height |-> pi.height, raised |-> "none",
     ellipse |->
        IF fi = <<>> THEN <<>>
        ELSE <<[center |-> fi[1].center,
                rx |-> int(fi[1].size * fi[1].source_width, Den),
                ry |-> int(fi[1].size * fi[1].source_width, Den)]>>]

\* -------------------------------------------------- PersonPreviewTile
\* With no else clause on the loop, fi is left at the last face scanned.
RECURSIVE find_keyface_no_else(_, _)
find_keyface_no_else(faces, keyface) ==
    IF faces = <<>> THEN <<>>
    ELSE IF Head(faces)._pk = keyface \/ Len(faces) = 1 THEN <<Head(faces)>>
    ELSE find_keyface_no_else(Tail(faces), keyface)

\* for fi in pi.face_info: if fi._pk == pi.keyface: break -- the first face
\* with the key face's key; <<>> when the loop ends without a break (else:).
RECURSIVE find_keyface(_, _)
find_keyface(faces, keyface) ==
    IF faces = <<>> THEN <<>>
    ELSE IF Head(faces)._pk = keyface THEN <<Head(faces)>>
    ELSE find_keyface(Tail(faces), keyface)

PersonPreviewTile(pi, fi) ==
    [person_info |-> pi, fi |-> fi,
     image |-> pdb_photo_to_image(LibPhoto(pi.keyphoto), <<fi>>)]

\* -------------------------------------------------------------- main
\* Libraries of one person, whose face list is any list of faces.
TileLibraries ==
    {WithIds(<<PersonInfo(Max(1, Len(fl)), UNKNOWN, kf, 1, fl)>>) :
        kf \in 1..MaxPk, fl \in SeqsUpTo({LibFace(k) : k \in 1..MaxPk}, MaxFaces)}

Idle ==
    /\ photo = PhotoInfo(0, 0, FALSE) /\ face = <<>> /\ image = <<>> /\ image2 = <<>>

Init ==
    /\ pdb \in Libraries \cup TileLibraries
    /\ pc = "start"
    /\ person_infos = <<>>
    /\ tiles = <<>>
    /\ idx = 0
    /\ error = "none"
    /\ Idle

\* person_infos = load_person_infos(pdb); PeopleWindow(person_infos) begins.
Load ==
    /\ pc = "start"
    /\ person_infos' = load_person_infos(pdb)
    /\ pc' = "window"
    /\ UNCHANGED <<pdb, tiles, idx, error, photo, face, image, image2>>

\* pi = self.person_infos[r * 3 + c] past the end of the list.
IndexError ==
    /\ pc = "window"
    /\ idx < GridSide * GridSide
    /\ idx >= Len(person_infos)
    /\ pc' = "crashed"
    /\ error' = "IndexError"
    /\ UNCHANGED <<pdb, person_infos, tiles, idx, photo, face, image, image2>>

\* PersonPreviewTile(pi, cw) raises Exception("Failed to find key face").
KeyFaceError ==
    /\ pc = "window"
    /\ idx < GridSide * GridSide
    /\ idx < Len(person_infos)
    /\ find_keyface(person_infos[idx + 1].face_info, person_infos[idx + 1].keyface) = <<>>
    /\ pc' = "crashed"
    /\ error' = "Failed to find key face"
    /\ UNCHANGED <<pdb, person_infos, tiles, idx, photo, face, image, image2>>

\* One pass of the loops: the tile of person r * 3 + c joins the grid.
AddTile ==
    /\ pc = "window"
    /\ idx < GridSide * GridSide
    /\ idx < Len(person_infos)
    /\ LET pi == person_infos[idx + 1]
           found == find_keyface(pi.face_info, pi.keyface)
       IN  /\ found # <<>>
           /\ tiles' = Append(tiles, PersonPreviewTile(pi, found[1]))
    /\ idx' = idx + 1
    /\ UNCHANGED <<pdb, pc, person_infos, error, photo, face, image, image2>>

\* Both loops are over: people_window.show().
Show ==
    /\ pc = "window"
    /\ idx = GridSide * GridSide
    /\ pc' = "shown"
    /\ UNCHANGED <<pdb, person_infos, tiles, idx, error, photo, face, image, image2>>

Next == Load \/ IndexError \/ KeyFaceError \/ AddTile \/ Show

Spec == Init /\ [][Next]_vars

\* ------------------------------------- pdb_photo_to_image on any face
Faces ==
    {FaceInfo(1, cx, cy, size, w, h, q) :
        cx \in 0..Den, cy \in 0..Den, size \in 0..Den,
        w \in 1..MaxDim, h \in 1..MaxDim, q \in Qualities}

InitOverlay ==
    /\ pdb = <<>>
    /\ pc = "draw"
    /\ person_infos = <<>>
    /\ tiles = <<>>
    /\ idx = 0
    /\ error = "none"
    /\ \E f \in Faces, decoded \in BOOLEAN, given \in BOOLEAN :
          /\ photo = PhotoInfo(f.source_width, f.source_height, decoded)
          /\ face = IF given THEN <<f>> ELSE <<>>
    /\ image = <<>>
    /\ image2 = <<>>

\* image = pdb_photo_to_image(pi, fi)
Draw ==
    /\ pc = "draw"
    /\ image' = <<pdb_photo_to_image(photo, face)>>
    /\ pc' = "drawn"
    /\ UNCHANGED <<pdb, person_infos, tiles, idx, error, photo, face, image2>>

\* The same call on a face that differs from fi in its quality alone.
DrawOther ==
    /\ pc = "drawn"
    /\ face # <<>>
    /\ \E q \in Qualities \ {face[1].quality} :
          image2' = <<[quality |-> q,
                       image |-> pdb_photo_to_image(photo,
                                    <<[face[1] EXCEPT !.quality = q]>>)]>>
    /\ pc' = "redrawn"
    /\ UNCHANGED <<pdb, person_infos, tiles, idx, error, photo, face, image>>

NextOverlay == Draw \/ DrawOther

SpecOverlay == InitOverlay /\ [][NextOverlay]_vars

\* ========================================================== properties
Take(s, n) == SubSeq(s, 1, Min(n, Len(s)))

\* The eligibility invariant of a person for review.
Eligible(pi) ==
    /\ pi.facecount > 0
    /\ pi.name = UNKNOWN
    /\ pi.keyface # Nil
    /\ pi.keyphoto # Nil

HasKeyFace(pi) == \E j \in 1..Len(pi.face_info) : pi.face_info[j]._pk = pi.keyface

Loaded == pc \in {"window", "shown", "crashed"}

\* C1: every person load_person_infos returns is a person of the library with
\* facecount > 0, the name "_UNKNOWN_", a key face and a key photo; a person
\* without a key reference is left out and no error is raised for it.
C1_OutputEligible ==
    Loaded =>
        /\ \A i \in 1..Len(person_infos) :
              /\ Eligible(person_infos[i])
              /\ person_infos[i].id \in 1..Len(pdb)
              /\ pdb[person_infos[i].id] = person_infos[i]
        /\ (pc = "window" /\ idx = 0) => error = "none"

C1_Witness ==
    /\ pc = "window" /\ idx = 0
    /\ Len(person_infos) > 0
    /\ \E i \in 1..Len(pdb) : Unidentified(pdb[i]) /\ pdb[i].keyphoto = Nil
    /\ \E i \in 1..Len(pdb) : Unidentified(pdb[i]) /\ pdb[i].keyface = Nil

\* C2: the returned list is in descending order of facecount, and persons of
\* equal facecount are in the order the library gave them.
C2_SortedStable ==
    Loaded =>
        \A i \in 1..(Len(person_infos) - 1) :
            /\ person_infos[i].facecount >= person_infos[i + 1].facecount
            /\ person_infos[i].facecount = person_infos[i + 1].facecount
                  => person_infos[i].id < person_infos[i + 1].id

C2_Witness ==
    /\ pc = "window"
    /\ \E i \in 1..(Len(person_infos) - 1) :
          /\ person_infos[i].facecount = person_infos[i + 1].facecount
          /\ \E j \in (i + 1)..(Len(person_infos) - 1) :
                /\ person_infos[j].facecount > person_infos[j + 1].facecount
                /\ person_infos[j].id > person_infos[j + 1].id

C4_KeyFaceResolved ==
    /\ Len(tiles) = idx
    /\ \A i \in 1..Len(tiles) :
          /\ tiles[i].person_info = person_infos[i]
          /\ tiles[i].fi._pk = person_infos[i].keyface
          /\ \E j \in 1..Len(person_infos[i].face_info) :
                person_infos[i].face_info[j] = tiles[i].fi
    /\ error = "Failed to find key face" =>
          /\ idx < Len(person_infos)
          /\ ~HasKeyFace(person_infos[idx + 1])

C4_Witness ==
    /\ error = "Failed to find key face"
    /\ person_infos[idx + 1].face_info # <<>>
    /\ idx > 0
    /\ tiles[1].fi # person_infos[1].face_info[1]

\* C9: building the people window never reads person_infos past its end,
\* however few persons were selected.
C9_NoIndexPastEnd == error # "IndexError"

\* C10: a missing key face of one selected person costs that person's tile
\* alone: every other selected person whose key face exists has a tile.
C10_KeyFaceFailureConfined ==
    error = "Failed to find key face" =>
        \A i \in 1..Len(person_infos) :
            HasKeyFace(person_infos[i]) =>
                \E k \in 1..Len(tiles) : tiles[k].person_info = person_infos[i]

Drawn == image # <<>> /\ face # <<>>

C6_RadiusRoundedAtLeastOne ==
    (Drawn /\ photo.width > 0 /\ photo.height > 0) =>
        /\ image[1].ellipse # <<>>
        /\ image[1].ellipse[1].rx \in
              {Max(1, n) : n \in Nearest(face[1].size * photo.width, Den)}
        /\ image[1].ellipse[1].ry = image[1].ellipse[1].rx

\* C6, amended: the radius is int(size * width) on both axes, truncated and
\* with no least value (0 for size 0.0); the height has no part in it.
C6_RadiusTruncated ==
    (Drawn /\ photo.width > 0 /\ photo.height > 0) =>
        /\ image[1].ellipse # <<>>
        /\ image[1].ellipse[1].rx = int(face[1].size * photo.width, Den)
        /\ image[1].ellipse[1].ry = image[1].ellipse[1].rx

C6_Witness ==
    /\ Drawn /\ photo.width > 0 /\ photo.height > 0
    /\ photo.height # photo.width
    /\ image[1].ellipse[1].rx > 0
    /\ \A n \in Nearest(face[1].size * photo.width, Den) : image[1].ellipse[1].rx < n

C8_QualityIgnored ==
    image2 # <<>> =>
        /\ image2[1].image = image[1]
        /\ image[1].ellipse # <<>>
        /\ image[1].raised = "none"

C8_Witness ==
    /\ image2 # <<>>
    /\ face[1].quality = -1
    /\ image2[1].quality = 1
    /\ image[1].ellipse # <<>>
    /\ image[1].ellipse[1].rx > 0

====
